---- MODULE Spec2Model ----
(***************************************************************************)
(* Model of the Pokemon creator application.                               *)
(*                                                                         *)
(*   - the browser client (class PokemonCreator, pokemon-creator.ts):      *)
(*     the form, the two multi-select pickers, the generation workflow,    *)
(*     the gallery, the language-switch re-render and logout;              *)
(*   - the backend (backend/index.ts): the in-memory user store, the JWT   *)
(*     helpers, the OAuth callback, the profile check and the generation   *)
(*     proxy in front of the Stable Diffusion service.                     *)
(*                                                                         *)
(* Text values are sequences of one-character strings, so that trim() and  *)
(* the prompt template are computed rather than assumed.  JSON values of a *)
(* request body carry a type tag, since JavaScript truthiness differs      *)
(* between an empty string and an empty array.                             *)
(***************************************************************************)
EXTENDS Integers, Sequences, FiniteSets, TLC

VARIABLES
    \* ---- browser: PokemonCreator instance and its document ----
    nameValue,          \* value of <input id="pokemon-name">
    descValue,          \* value of <textarea id="pokemon-description">
    animalDom,          \* indexes of the options selected in <select id="animal-types">
    abilityDom,         \* indexes of the options selected in <select id="abilities">
    selectedAnimals,    \* this.selectedAnimals (a Set: insertion-ordered, no duplicates)
    selectedAbilities,  \* this.selectedAbilities
    generatedPokemons,  \* this.generatedPokemons
    isGenerating,       \* this.isGenerating
    docBtn,             \* the <button id="generate-btn"> currently in the document
    galleryDom,         \* children of <div id="gallery-content"> currently in the document
    toast,              \* message key of the toast last shown
    calls,              \* suspended activations of generatePokemon, each with its request
    view,               \* what the browser tab shows
    cookie,             \* the browser's 'authorization' cookie
    logoutStatus,       \* status of the response to the last logout of this session
    \* ---- backend process ----
    users,              \* const users: User[]
    lastId,             \* let lastId
    now,                \* the clock, in hours since the backend first started
    issued,             \* the tokens createAccessToken returned, each with the
                        \* external id of the user it was issued for and whether
                        \* the process that issued it is the one running
    callbacks,          \* GET /api/callback requests of other browsers in flight
    \* ---- other HTTP clients of the backend ----
    posts,              \* POST /api/generate-pokemon requests sent by other clients
    lastProfile         \* the last GET /api/user-profile exchange

sessionVars ==
    <<view, cookie, logoutStatus, users, lastId, lastProfile, now, issued, callbacks>>

vars == <<nameValue, descValue, animalDom, abilityDom, selectedAnimals,
          selectedAbilities, generatedPokemons, isGenerating, docBtn,
          galleryDom, toast, calls, posts, view, cookie, logoutStatus,
          users, lastId, lastProfile, now, issued, callbacks>>

clientVars == <<nameValue, descValue, animalDom, abilityDom, selectedAnimals,
                selectedAbilities, generatedPokemons, isGenerating, docBtn,
                galleryDom, toast, calls>>

-----------------------------------------------------------------------------
(* Bounds of the model.                                                    *)

\* number of options offered by the animal-type picker (12 in the source)
NumAnimalOptions == 3
\* number of options offered by the ability picker (12 in the source)
NumAbilityOptions == 4
\* longest text typed into the name field
MaxNameLen == 1
\* longest text typed into the description field
MaxDescLen == 1
\* most entries the gallery is filled with
MaxGallery == 2
\* most activations of generatePokemon suspended at once
MaxCalls == 2
\* most requests of other clients in progress at once
MaxPosts == 1
\* most images the image service returns in one answer
MaxImages == 2
\* number of animal-type options the user picks among while generating
WorkflowAnimalOptions == 2
\* number of ability options the user picks among while generating
WorkflowAbilityOptions == 1
\* longest animal-type and ability lists other clients post
MaxPostedList == 2
\* number of external identities that sign in
MaxGoogleIds == 2
\* most records the user store is filled with
MaxUsers == 3
\* largest user id carried by a token a client makes up
MaxTokenId == 3
\* most callbacks of other browsers in flight at once
MaxCallbacks == 3
\* most issued tokens the history keeps track of
MaxIssued == 3
\* hours the clock advances in one step
ClockStep == 25
\* last hour the clock reaches
MaxClock == 27

-----------------------------------------------------------------------------
(* Program constants.                                                      *)

MaxAnimalSelections == 2
MaxAbilitySelections == 3

ANIMAL_TYPES_ALL ==
    <<"Dragon", "Cat", "Dog", "Bird", "Fish", "Snake",
      "Tiger", "Bear", "Wolf", "Fox", "Rabbit", "Mouse">>

ABILITIES_ALL ==
    <<"Fire", "Water", "Electric", "Grass", "Ice", "Flying",
      "Psychic", "Dark", "Steel", "Ghost", "Dragon", "Fairy">>

Min(a, b) == IF a < b THEN a ELSE b

ANIMAL_TYPES == SubSeq(ANIMAL_TYPES_ALL, 1, Min(NumAnimalOptions, Len(ANIMAL_TYPES_ALL)))

ABILITIES == SubSeq(ABILITIES_ALL, 1, Min(NumAbilityOptions, Len(ABILITIES_ALL)))

-----------------------------------------------------------------------------
(* Text and JSON values.                                                   *)

\* all sequences over S of length at most n
RECURSIVE Texts(_, _)
Texts(S, n) ==
    IF n = 0 THEN {<<>>}
    ELSE LET shorter == Texts(S, n - 1)
         IN  shorter \cup {Append(t, c) : t \in {u \in shorter : Len(u) = n - 1}, c \in S}

IsSpace(c) == c = " "

RECURSIVE TrimStart(_)
TrimStart(s) ==
    IF s = <<>> THEN <<>>
    ELSE IF IsSpace(Head(s)) THEN TrimStart(Tail(s)) ELSE s

RECURSIVE TrimEnd(_)
TrimEnd(s) ==
    IF s = <<>> THEN <<>>
    ELSE IF IsSpace(s[Len(s)]) THEN TrimEnd(SubSeq(s, 1, Len(s) - 1)) ELSE s

\* String.prototype.trim
Trim(s) == TrimEnd(TrimStart(s))

Undefined == [t |-> "undef", v |-> <<>>]
Str(s) == [t |-> "str", v |-> s]
Arr(a) == [t |-> "arr", v |-> a]

\* JavaScript !x for the values a body field takes here: undefined and the
\* empty string are falsy; every array, the empty one included, is truthy.
Falsy(x) ==
    CASE x.t = "undef" -> TRUE
      [] x.t = "str"   -> x.v = <<>>
      [] x.t = "arr"   -> FALSE

\* Array.prototype.join: the pieces of the joined text
RECURSIVE Join(_, _)
Join(a, sep) ==
    IF a = <<>> THEN <<>>
    ELSE IF Len(a) = 1 THEN <<a[1]>>
    ELSE <<a[1], sep>> \o Join(Tail(a), sep)

\* the elements of a set of indexes, in increasing order
RECURSIVE Sorted(_)
Sorted(S) ==
    IF S = {} THEN <<>>
    ELSE LET m == CHOOSE x \in S : \A y \in S : x <= y
         IN  <<m>> \o Sorted(S \ {m})

Range(s) == {s[i] : i \in 1..Len(s)}

\* sequence s without its i-th element
RemoveAt(s, i) == SubSeq(s, 1, i - 1) \o SubSeq(s, i + 1, Len(s))

\* sequence s with its i-th element replaced
ReplaceAt(s, i, e) == [s EXCEPT ![i] = e]

-----------------------------------------------------------------------------
(* Generation proxy: POST /api/generate-pokemon and the image service.     *)

\* no response body (yet)
NoBody ==
    [t |-> "none", error |-> Undefined, success |-> FALSE,
     imageUrl |-> Undefined, prompt |-> Undefined]

\* the request carries no authorization cookie
NoAuthorization ==
    [t |-> "undef", payload |-> [id |-> 0, iat |-> 0],
     sig |-> [key |-> "", of |-> [id |-> 0, iat |-> 0]]]

\* A request to the proxy as put on the wire; the handler has not run yet.
\* sd holds the body of the outbound call once made, sdCalls counts the
\* outbound calls made for the request, sdAnswer holds what came back;
\* cookie is the authorization cookie the request carries.
NewRequest(body) ==
    [body |-> body, stage |-> "sent", status |-> 0, resp |-> NoBody,
     sd |-> <<>>, sdCalls |-> 0, sdAnswer |-> <<>>, cookie |-> NoAuthorization]

\* res.status(s).json({ error: message }); a field the body lacks is Undefined
\* (success: FALSE)
ErrorBody(message) ==
    [t |-> "obj", error |-> Str(<<message>>), success |-> FALSE,
     imageUrl |-> Undefined, prompt |-> Undefined]

\* res.json({ success: true, imageUrl, prompt })
SuccessBody(imageUrl, prompt) ==
    [t |-> "obj", error |-> Undefined, success |-> TRUE,
     imageUrl |-> Str(imageUrl), prompt |-> Str(prompt)]

\* a check that leaves the name out
MissingFields_NoName(body) ==
    Falsy(body.animalTypes) \/ Falsy(body.abilities)

\* if (!name || !animalTypes || !abilities)
MissingFields(body) ==
    Falsy(body.name) \/ Falsy(body.animalTypes) \/ Falsy(body.abilities)

\* a template that also carries the description
BuildPrompt_WithDescription(body) ==
    <<"A pokemon creature named ">> \o body.name.v
        \o <<" that combines ">> \o Join(body.animalTypes.v, " and ")
        \o <<", with ">> \o Join(body.abilities.v, ", ")
        \o <<" powers, ">> \o (IF body.description.t = "str" THEN body.description.v ELSE <<>>)
        \o <<", colorful, digital art, high quality, pokemon style, fantasy art">>

\* the prompt template, as the pieces of the resulting text
BuildPrompt(body) ==
    <<"A pokemon creature named ">> \o body.name.v
        \o <<" that combines ">> \o Join(body.animalTypes.v, " and ")
        \o <<", with ">> \o Join(body.abilities.v, ", ")
        \o <<" powers, colorful, digital art, high quality, pokemon style, fantasy art">>

NegativePrompt == "ugly, blurry, low quality, distorted, disfigured, bad anatomy"

\* body of the txt2img call
SdRequest(body) ==
    [prompt |-> BuildPrompt(body), negative_prompt |-> NegativePrompt,
     steps |-> 20, width |-> 512, height |-> 512, cfg_scale |-> 7,
     sampler_name |-> "Euler a"]

\* the handler from its entry to its first await: validation, then the
\* outbound call
HandleGenerate(r) ==
    IF MissingFields(r.body)
    THEN [r EXCEPT !.stage = "answered", !.status = 400,
                   !.resp = ErrorBody("Missing required fields")]
    ELSE [r EXCEPT !.stage = "upstream",
                   !.sd = <<SdRequest(r.body)>>,
                   !.sdCalls = r.sdCalls + 1]

IMAGES == <<"imgA", "imgB", "imgC", "imgD">>

ImageLists == {SubSeq(IMAGES, 1, n) : n \in 0..Min(MaxImages, Len(IMAGES))}

\* what the image service can do with one call: the connection fails, it
\* answers a non-success status, it answers a success status with a body that
\* is no JSON, with a JSON body without images, or with a list of images
UpstreamOutcomes ==
    {[kind |-> "reject", ok |-> FALSE, images |-> Undefined],
     [kind |-> "status", ok |-> FALSE, images |-> Undefined],
     [kind |-> "badjson", ok |-> TRUE, images |-> Undefined],
     [kind |-> "json", ok |-> TRUE, images |-> Undefined]}
    \cup {[kind |-> "json", ok |-> TRUE, images |-> Arr(l)] : l \in ImageLists}

\* the throw statements of the try block and the failures of its awaits
UpstreamFails(o) ==
    \/ o.kind = "reject"
    \/ ~o.ok
    \/ o.kind = "badjson"
    \/ Falsy(o.images)
    \/ Len(o.images.v) = 0

\* the last image in place of the first
ImageUrl_Last(images) == <<"data:image/png;base64,", images[Len(images)]>>

\* `data:image/png;base64,${sdData.images[0]}`
ImageUrl(images) == <<"data:image/png;base64,", images[1]>>

\* a handler that calls the image service once more after a failure
HandleUpstream_Retry(r, o) ==
    IF UpstreamFails(o) /\ r.sdCalls < 2
    THEN [r EXCEPT !.sdCalls = r.sdCalls + 1]
    ELSE IF UpstreamFails(o)
    THEN [r EXCEPT !.stage = "answered", !.status = 500, !.sdAnswer = <<o>>,
                   !.resp = ErrorBody("Failed to generate pokemon image")]
    ELSE [r EXCEPT !.stage = "answered", !.status = 200, !.sdAnswer = <<o>>,
                   !.resp = SuccessBody(ImageUrl(o.images.v), r.sd[1].prompt)]

\* the handler from the resolution of the outbound call to its response
HandleUpstream(r, o) ==
    IF UpstreamFails(o)
    THEN [r EXCEPT !.stage = "answered", !.status = 500, !.sdAnswer = <<o>>,
                   !.resp = ErrorBody("Failed to generate pokemon image")]
    ELSE [r EXCEPT !.stage = "answered", !.status = 200, !.sdAnswer = <<o>>,
                   !.resp = SuccessBody(ImageUrl(o.images.v), r.sd[1].prompt)]

\* a client that does not look at the status
Ok_Any(status) == TRUE

\* Response.ok
Ok(status) == status >= 200 /\ status <= 299

-----------------------------------------------------------------------------
(* Browser: the pickers (createMultiSelect and its two uses).              *)

\* Array.from(select.selectedOptions).map(opt => opt.value): document order
SelectedOptions(S, options) ==
    LET idx == Sorted(S) IN [i \in 1..Len(idx) |-> options[idx[i]]]

\* select.selectedIndex: the index of the first selected option
SelectedIndex(S) == CHOOSE x \in S : \A y \in S : x <= y

\* Array.prototype.slice(0, n)
Slice(a, n) == SubSeq(a, 1, Min(n, Len(a)))

OverCap(S, max) == Cardinality(S) > max

\* the control after the change handler ran on the selection S:
\* select.options[select.selectedIndex].selected = false when over the cap
DomAfterChange(S, max) ==
    IF OverCap(S, max) THEN S \ {SelectedIndex(S)} ELSE S

\* the whole list handed to onSelectionChange
TrackedAfterChange_NoSlice(S, options, max) == SelectedOptions(S, options)

\* the list handed to onSelectionChange, which clears the Set and adds the
\* list's elements in order
TrackedAfterChange(S, options, max) == Slice(SelectedOptions(S, options), max)

\* 'change' on #animal-types: the user's gesture left the options S selected
ChangeAnimals(S) ==
    /\ S # animalDom
    /\ animalDom' = DomAfterChange(S, MaxAnimalSelections)
    /\ selectedAnimals' = TrackedAfterChange(S, ANIMAL_TYPES, MaxAnimalSelections)
    /\ toast' = IF OverCap(S, MaxAnimalSelections) THEN "validation.maxAnimals" ELSE toast
    /\ UNCHANGED <<nameValue, descValue, abilityDom, selectedAbilities,
                   generatedPokemons, isGenerating, docBtn, galleryDom, calls, posts, sessionVars>>

\* 'change' on #abilities
ChangeAbilities(S) ==
    /\ S # abilityDom
    /\ abilityDom' = DomAfterChange(S, MaxAbilitySelections)
    /\ selectedAbilities' = TrackedAfterChange(S, ABILITIES, MaxAbilitySelections)
    /\ toast' = IF OverCap(S, MaxAbilitySelections) THEN "validation.maxAbilities" ELSE toast
    /\ UNCHANGED <<nameValue, descValue, animalDom, selectedAnimals,
                   generatedPokemons, isGenerating, docBtn, galleryDom, calls, posts, sessionVars>>

\* the user edits the name field
TypeName(v) ==
    /\ v # nameValue
    /\ nameValue' = v
    /\ UNCHANGED <<descValue, animalDom, abilityDom, selectedAnimals, selectedAbilities,
                   generatedPokemons, isGenerating, docBtn, galleryDom, toast, calls, posts, sessionVars>>

\* the user edits the description field
TypeDescription(v) ==
    /\ v # descValue
    /\ descValue' = v
    /\ UNCHANGED <<nameValue, animalDom, abilityDom, selectedAnimals, selectedAbilities,
                   generatedPokemons, isGenerating, docBtn, galleryDom, toast, calls, posts, sessionVars>>

-----------------------------------------------------------------------------
(* Browser: rendering.                                                     *)

\* the button createGenerateButton builds
FreshButton == [disabled |-> FALSE, label |-> "form.generate", busy |-> "unset"]

\* the button as generatePokemon leaves it on entering the request
BusyButton == [disabled |-> TRUE, label |-> "form.generating", busy |-> "true"]

\* the button as the finally block leaves it
IdleButton == [disabled |-> FALSE, label |-> "form.generate", busy |-> "false"]

\* the buttons the suspended activations hold are no longer in the document
Detach(cs) == [i \in 1..Len(cs) |-> [cs[i] EXCEPT !.btnCurrent = FALSE]]

\* The completion callback of switchLanguage on a language button:
\* container.innerHTML = '' and render(), which builds a new form, new
\* pickers, a new button and an empty #gallery-content; the fields of the
\* instance are left as they are.  The toast hangs on document.body.
SwitchLanguage ==
    /\ nameValue' = <<>>
    /\ descValue' = <<>>
    /\ animalDom' = {}
    /\ abilityDom' = {}
    /\ docBtn' = FreshButton
    /\ galleryDom' = <<>>
    /\ calls' = Detach(calls)
    /\ UNCHANGED <<selectedAnimals, selectedAbilities, generatedPokemons,
                   isGenerating, toast, posts, sessionVars>>

\* createPokemonCard: the image if imageUrl is truthy, else the placeholder
PokemonCard(pokemon) ==
    [kind |-> "card", name |-> pokemon.name,
     animalTypes |-> pokemon.animalTypes, abilities |-> pokemon.abilities,
     image |-> IF Falsy(pokemon.imageUrl) THEN Str(<<"placeholder">>)
               ELSE pokemon.imageUrl,
     complete |-> ~Falsy(pokemon.imageUrl)]

EmptyState ==
    [kind |-> "empty", name |-> <<>>, animalTypes |-> <<>>, abilities |-> <<>>,
     image |-> Undefined, complete |-> FALSE]

\* updateGallery: the children of #gallery-content
GalleryOf(pokemons) ==
    IF Len(pokemons) = 0 THEN <<EmptyState>>
    ELSE [i \in 1..Len(pokemons) |-> PokemonCard(pokemons[i])]

-----------------------------------------------------------------------------
(* Browser: generatePokemon.                                               *)

\* generatePokemon without its entry guard
AlreadyGenerating_Never == FALSE

\* if (this.isGenerating) return;
AlreadyGenerating == isGenerating

\* the object built at the head of the try block; imageUrl is not set yet
NewPokemon(name) ==
    [name |-> name, animalTypes |-> selectedAnimals,
     abilities |-> selectedAbilities, imageUrl |-> Undefined]

\* JSON.stringify({ name, description, animalTypes, abilities })
RequestBody(pokemon, description) ==
    [name |-> Str(pokemon.name), description |-> Str(description),
     animalTypes |-> Arr(pokemon.animalTypes), abilities |-> Arr(pokemon.abilities)]

\* one activation of generatePokemon suspended at an await, with the button
\* element it holds in generateBtn and the request it sent; credentials:
\* 'include' attaches the browser's cookie
NewCall(pokemon, description) ==
    [pokemon |-> pokemon, btnCurrent |-> TRUE, stage |-> "fetch",
     req |-> [NewRequest(RequestBody(pokemon, description)) EXCEPT !.cookie = cookie]]

\* a validation that looks at the abilities before the animal types
ClickGenerate_AbilityFirst ==
    LET name == Trim(nameValue)
        description == Trim(descValue)
        message == IF name = <<>> THEN "validation.nameRequired"
                   ELSE IF Len(selectedAbilities) = 0 THEN "validation.selectAbility"
                   ELSE IF Len(selectedAnimals) = 0 THEN "validation.selectAnimalType"
                   ELSE "none"
    IN  /\ ~docBtn.disabled
        /\ IF AlreadyGenerating THEN UNCHANGED vars
           ELSE IF message # "none" THEN
               /\ toast' = message
               /\ UNCHANGED <<nameValue, descValue, animalDom, abilityDom, selectedAnimals,
                              selectedAbilities, generatedPokemons, isGenerating, docBtn,
                              galleryDom, calls, posts, sessionVars>>
           ELSE
               /\ Len(calls) < MaxCalls
               /\ Len(generatedPokemons) + Len(calls) < MaxGallery
               /\ isGenerating' = TRUE
               /\ docBtn' = BusyButton
               /\ calls' = Append(calls, NewCall(NewPokemon(name), description))
               /\ UNCHANGED <<nameValue, descValue, animalDom, abilityDom, selectedAnimals,
                              selectedAbilities, generatedPokemons, galleryDom, toast, posts, sessionVars>>

\* 'click' on #generate-btn: generatePokemon up to its first await.  A
\* disabled button dispatches no click.
ClickGenerate ==
    LET name == Trim(nameValue)
        description == Trim(descValue)
    IN  /\ ~docBtn.disabled
        /\ IF AlreadyGenerating THEN UNCHANGED vars
           ELSE IF name = <<>> THEN
               /\ toast' = "validation.nameRequired"
               /\ UNCHANGED <<nameValue, descValue, animalDom, abilityDom, selectedAnimals,
                              selectedAbilities, generatedPokemons, isGenerating, docBtn,
                              galleryDom, calls, posts, sessionVars>>
           ELSE IF Len(selectedAnimals) = 0 THEN
               /\ toast' = "validation.selectAnimalType"
               /\ UNCHANGED <<nameValue, descValue, animalDom, abilityDom, selectedAnimals,
                              selectedAbilities, generatedPokemons, isGenerating, docBtn,
                              galleryDom, calls, posts, sessionVars>>
           ELSE IF Len(selectedAbilities) = 0 THEN
               /\ toast' = "validation.selectAbility"
               /\ UNCHANGED <<nameValue, descValue, animalDom, abilityDom, selectedAnimals,
                              selectedAbilities, generatedPokemons, isGenerating, docBtn,
                              galleryDom, calls, posts, sessionVars>>
           ELSE
               /\ Len(calls) < MaxCalls
               /\ Len(generatedPokemons) + Len(calls) < MaxGallery
               /\ isGenerating' = TRUE
               /\ docBtn' = BusyButton
               /\ calls' = Append(calls, NewCall(NewPokemon(name), description))
               /\ UNCHANGED <<nameValue, descValue, animalDom, abilityDom, selectedAnimals,
                              selectedAbilities, generatedPokemons, galleryDom, toast, posts, sessionVars>>

\* a finally block that leaves the flag as it is
Finally_KeepsFlag(c) ==
    /\ isGenerating' = isGenerating
    /\ docBtn' = IF c.btnCurrent THEN IdleButton ELSE docBtn

\* the finally block: the flag, and the button element the activation holds
Finally(c) ==
    /\ isGenerating' = FALSE
    /\ docBtn' = IF c.btnCurrent THEN IdleButton ELSE docBtn

\* the catch block followed by the finally block
Failed(i) ==
    /\ toast' = "messages.generationFailed"
    /\ Finally(calls[i])
    /\ calls' = RemoveAt(calls, i)
    /\ UNCHANGED <<nameValue, descValue, animalDom, abilityDom, selectedAnimals,
                   selectedAbilities, generatedPokemons, galleryDom, posts, sessionVars>>

\* push in place of unshift
Unshift_Push(pokemons, pokemon) == Append(pokemons, pokemon)

\* this.generatedPokemons.unshift(pokemon)
Unshift(pokemons, pokemon) == <<pokemon>> \o pokemons

\* pokemon.imageUrl = data.imageUrl
WithImage(pokemon, data) == [pokemon EXCEPT !.imageUrl = data.imageUrl]

\* the proxy's handler runs on the request of activation i
ProxyReceive(i) ==
    /\ calls[i].stage = "fetch"
    /\ calls[i].req.stage = "sent"
    /\ calls' = ReplaceAt(calls, i, [calls[i] EXCEPT !.req = HandleGenerate(@)])
    /\ UNCHANGED <<nameValue, descValue, animalDom, abilityDom, selectedAnimals,
                   selectedAbilities, generatedPokemons, isGenerating, docBtn,
                   galleryDom, toast, posts, sessionVars>>

\* the image service's answer reaches the proxy's handler
UpstreamResolve(i, o) ==
    /\ calls[i].stage = "fetch"
    /\ calls[i].req.stage = "upstream"
    /\ calls' = ReplaceAt(calls, i, [calls[i] EXCEPT !.req = HandleUpstream(@, o)])
    /\ UNCHANGED <<nameValue, descValue, animalDom, abilityDom, selectedAnimals,
                   selectedAbilities, generatedPokemons, isGenerating, docBtn,
                   galleryDom, toast, posts, sessionVars>>

\* await fetch(...) resolves with the proxy's response; a status that is not
\* ok throws
FetchResolve(i) ==
    /\ calls[i].stage = "fetch"
    /\ calls[i].req.stage = "answered"
    /\ IF Ok(calls[i].req.status)
       THEN /\ calls' = ReplaceAt(calls, i, [calls[i] EXCEPT !.stage = "json"])
            /\ UNCHANGED <<nameValue, descValue, animalDom, abilityDom, selectedAnimals,
                           selectedAbilities, generatedPokemons, isGenerating, docBtn,
                           galleryDom, toast, posts, sessionVars>>
       ELSE Failed(i)

\* await fetch(...) rejects: the request or its response is lost
FetchReject(i) ==
    /\ calls[i].stage = "fetch"
    /\ Failed(i)

\* a reset that clears the controls and leaves the two Sets as they are
ResetForm_KeepsSets ==
    /\ nameValue' = <<>>
    /\ descValue' = <<>>
    /\ animalDom' = {}
    /\ abilityDom' = {}
    /\ UNCHANGED <<selectedAnimals, selectedAbilities>>

\* resetForm
ResetForm ==
    /\ nameValue' = <<>>
    /\ descValue' = <<>>
    /\ animalDom' = {}
    /\ abilityDom' = {}
    /\ selectedAnimals' = <<>>
    /\ selectedAbilities' = <<>>

\* await response.json() resolves: the rest of the try block, then finally
JsonResolve(i) ==
    /\ calls[i].stage = "json"
    /\ generatedPokemons' =
           Unshift(generatedPokemons, WithImage(calls[i].pokemon, calls[i].req.resp))
    /\ galleryDom' = GalleryOf(generatedPokemons')
    /\ ResetForm
    /\ toast' = "messages.created"
    /\ Finally(calls[i])
    /\ calls' = RemoveAt(calls, i)
    /\ UNCHANGED <<posts, sessionVars>>

\* await response.json() rejects: the body is no JSON
JsonReject(i) ==
    /\ calls[i].stage = "json"
    /\ Failed(i)

-----------------------------------------------------------------------------
(* Backend: user store, tokens, OAuth callback, profile check, routes.     *)

JWT_SECRET == "MY_SECRET"

GOOGLE_IDS_ALL == <<"g1", "g2", "g3", "g4", "g5", "g6">>

\* the external identities that sign in
GoogleIds == {GOOGLE_IDS_ALL[i] : i \in 1..Min(MaxGoogleIds, Len(GOOGLE_IDS_ALL))}

\* a lookup that looks at the first record only
FindUserByGoogleId_First(store, googleId) ==
    IF Len(store) > 0 /\ store[1].googleId = googleId THEN <<store[1]>> ELSE <<>>

\* users.find(user => user.googleId === googleId): the first match, or <<>>
FindUserByGoogleId(store, googleId) ==
    LET hits == {i \in 1..Len(store) : store[i].googleId = googleId}
    IN  IF hits = {} THEN <<>>
        ELSE <<store[CHOOSE i \in hits : \A j \in hits : i <= j]>>

\* users.find(user => user.id === id): the first match, or <<>>
FindUserById(store, id) ==
    LET hits == {i \in 1..Len(store) : store[i].id = id}
    IN  IF hits = {} THEN <<>>
        ELSE <<store[CHOOSE i \in hits : \A j \in hits : i <= j]>>

\* a record that always gets the first id
NewUser_FirstId(googleId, id) == [id |-> 1, googleId |-> googleId]

\* the record addUser builds: { ...user, id: lastId++ }
NewUser(googleId, id) == [id |-> id, googleId |-> googleId]

\* a signature over a fixed text in place of the payload
Sign_Unbound(payload, key) ==
    [t |-> "jwt", payload |-> payload, sig |-> [key |-> key, of |-> [id |-> 0, iat |-> 0]]]

\* jwt.sign(payload, key) with no options: the signature binds the payload
\* to the key.  The library stamps the payload with iat, the time of signing;
\* it adds an exp claim only when asked to with expiresIn.
Sign(payload, key) == [t |-> "jwt", payload |-> payload, sig |-> [key |-> key, of |-> payload]]

\* createAccessToken
CreateAccessToken(userId) == Sign([id |-> userId, iat |-> now], JWT_SECRET)

NoCookie ==
    [t |-> "undef", payload |-> [id |-> 0, iat |-> 0],
     sig |-> [key |-> "", of |-> [id |-> 0, iat |-> 0]]]

\* a cookie whose value is the empty string
EmptyCookie ==
    [t |-> "empty", payload |-> [id |-> 0, iat |-> 0],
     sig |-> [key |-> "", of |-> [id |-> 0, iat |-> 0]]]

\* a cookie whose value is no JWT at all
GarbageCookie ==
    [t |-> "garbage", payload |-> [id |-> 0, iat |-> 0],
     sig |-> [key |-> "", of |-> [id |-> 0, iat |-> 0]]]

\* jwt.verify(token, key, callback): an error unless the value is a JWT whose
\* signature was made with the key over the payload it carries.  A payload
\* without exp is never compared with the clock.
VerifyError(token, key) ==
    \/ token.t # "jwt"
    \/ token.sig.key # key
    \/ token.sig.of # token.payload

\* decoding in place of verifying
GetTokenPayload_Decode(token) ==
    IF token.t # "jwt" THEN <<>> ELSE <<token.payload>>

\* getTokenPayload: the payload, or <<>> for null
GetTokenPayload(token) ==
    IF VerifyError(token, JWT_SECRET) THEN <<>> ELSE <<token.payload>>

NoUser == [id |-> 0, googleId |-> ""]

Response(status, error, user) == [status |-> status, error |-> error, user |-> user]

\* the handler of GET /user-profile on the cookie value the request carries
UserProfile(token, store) ==
    IF token.t = "undef" \/ token.t = "empty"
    THEN Response(401, "Not authenticated", NoUser)
    ELSE LET payload == GetTokenPayload(token) IN
         IF payload = <<>>
         THEN Response(401, "Invalid token", NoUser)
         ELSE LET user == FindUserById(store, payload[1].id) IN
              IF user = <<>>
              THEN Response(401, "User not found", NoUser)
              ELSE Response(200, "", user[1])

\* the routes registered on the api Router
Routes ==
    {<<"GET", "/">>, <<"POST", "/generate-pokemon">>, <<"GET", "/google">>,
     <<"GET", "/callback">>, <<"GET", "/user-profile">>}

\* status of a request no registered route matches: Express answers 404
RouteStatus(method, path, handled) ==
    IF <<method, path>> \in Routes THEN handled ELSE 404

\* the hours the clock shows
ClockValues == {t \in 0..MaxClock : t % ClockStep = 0}

\* the values a client can send as its authorization cookie
CookieValues ==
    {NoCookie, EmptyCookie, GarbageCookie}
    \cup {Sign([id |-> n, iat |-> t], JWT_SECRET) : n \in 0..MaxTokenId, t \in ClockValues}
    \cup {Sign([id |-> n, iat |-> 0], "OTHER_SECRET") : n \in 0..MaxTokenId}
    \cup {[Sign([id |-> n, iat |-> 0], JWT_SECRET) EXCEPT !.payload = [id |-> m, iat |-> 0]] :
              n \in 0..MaxTokenId, m \in 0..MaxTokenId}

\* GET /api/callback after the provider confirmed the identity googleId: the
\* strategy's verify callback (find, else add), then the route's handler
\* (token, cookie, redirect to the client, which loads its page anew)
CallbackSuccess(googleId) ==
    LET found == FindUserByGoogleId(users, googleId)
        user == IF found # <<>> THEN found[1] ELSE NewUser(googleId, lastId)
    IN  /\ view = "landing"
        /\ found = <<>> => Len(users) < MaxUsers
        /\ users' = IF found # <<>> THEN users ELSE Append(users, user)
        /\ lastId' = IF found # <<>> THEN lastId ELSE lastId + 1
        /\ cookie' = CreateAccessToken(user.id)
        /\ view' = "loading"
        /\ logoutStatus' = 0
        /\ issued' = issued \cup {[token |-> CreateAccessToken(user.id),
                                    googleId |-> googleId, live |-> TRUE]}
        /\ Cardinality(issued') <= MaxIssued
        /\ UNCHANGED <<clientVars, posts, callbacks, lastProfile, now>>

\* GET /api/callback after a denial or a failed exchange: failureRedirect '/'
CallbackFailure ==
    /\ view = "landing"
    /\ view' = "failure"
    /\ UNCHANGED <<clientVars, posts, callbacks, cookie, logoutStatus, users, lastId, lastProfile,
                   now, issued>>

\* GET /api/callback when the strategy reports an error rather than a
\* failure (the provider's error parameter is not access_denied, or the
\* exchange of the code for an access token or the profile request fails):
\* passport hands the error to next(), no handler of this application takes
\* it, and Express answers 500.  failureRedirect is not consulted and the
\* verify callback has not run.
CallbackError ==
    /\ view = "landing"
    /\ view' = "error"
    /\ UNCHANGED <<clientVars, posts, callbacks, cookie, logoutStatus, users, lastId, lastProfile,
                   now, issued>>

\* the user goes back from the failure destination, or from the error page,
\* to the client's page
BackToClient ==
    /\ view \in {"failure", "error"}
    /\ view' = "loading"
    /\ UNCHANGED <<clientVars, posts, callbacks, cookie, logoutStatus, users, lastId, lastProfile,
                   now, issued>>

\* a checkAuth without its catch: the backend's answer counts even when
\* the fetch rejected
CheckAuth_NoCatch(fetchOk) ==
    LET r == UserProfile(cookie, users) IN
    /\ view = "loading"
    /\ lastProfile' = IF fetchOk THEN [cookie |-> cookie, resp |-> r] ELSE lastProfile
    /\ view' = IF Ok(r.status) THEN "creator" ELSE "landing"
    /\ UNCHANGED <<clientVars, posts, callbacks, cookie, logoutStatus, users, lastId, now, issued>>

\* init() of main.ts: checkAuth, then one of the two pages.  fetchOk is
\* FALSE when the fetch rejects.
CheckAuth(fetchOk) ==
    LET r == UserProfile(cookie, users) IN
    /\ view = "loading"
    /\ lastProfile' = IF fetchOk THEN [cookie |-> cookie, resp |-> r] ELSE lastProfile
    /\ view' = IF fetchOk /\ Ok(r.status) THEN "creator" ELSE "landing"
    /\ UNCHANGED <<clientVars, posts, callbacks, cookie, logoutStatus, users, lastId, now, issued>>

\* any client sends GET /api/user-profile with a cookie value of its choice
ProfileRequest(token) ==
    /\ lastProfile' = [cookie |-> token, resp |-> UserProfile(token, users)]
    /\ UNCHANGED <<clientVars, posts, callbacks, view, cookie, logoutStatus, users, lastId, now, issued>>

\* the backend process is restarted: the module-level store starts over
Restart ==
    /\ users # <<>>
    /\ users' = <<>>
    /\ lastId' = 1
    /\ issued' = {[r EXCEPT !.live = FALSE] : r \in issued}
    /\ UNCHANGED <<clientVars, posts, callbacks, view, cookie, logoutStatus, lastProfile, now>>

\* time passes
Tick ==
    /\ now + ClockStep <= MaxClock
    /\ now' = now + ClockStep
    /\ UNCHANGED <<clientVars, posts, callbacks, view, cookie, logoutStatus, users, lastId,
                   lastProfile, issued>>

\* status of POST /api/logout
LogoutResponse == RouteStatus("POST", "/logout", 200)

\* handleLogout: on an ok response destroy() and window.location.reload(),
\* which builds the page anew; otherwise, and when the fetch rejects, a toast
HandleLogout(fetchOk) ==
    /\ view = "creator"
    /\ logoutStatus' = IF fetchOk THEN LogoutResponse ELSE logoutStatus
    /\ IF fetchOk /\ Ok(LogoutResponse)
       THEN /\ view' = "loading"
            /\ nameValue' = <<>>
            /\ descValue' = <<>>
            /\ animalDom' = {}
            /\ abilityDom' = {}
            /\ selectedAnimals' = <<>>
            /\ selectedAbilities' = <<>>
            /\ generatedPokemons' = <<>>
            /\ isGenerating' = FALSE
            /\ docBtn' = FreshButton
            /\ galleryDom' = <<>>
            /\ calls' = <<>>
            /\ toast' = "none"
       ELSE /\ toast' = "messages.logoutFailed"
            /\ UNCHANGED <<view, nameValue, descValue, animalDom, abilityDom,
                           selectedAnimals, selectedAbilities, generatedPokemons,
                           isGenerating, docBtn, galleryDom, calls>>
    /\ UNCHANGED <<posts, callbacks, cookie, users, lastId, lastProfile, now, issued>>

NoExchange == [cookie |-> NoCookie, resp |-> Response(0, "", NoUser)]

\* the session part of the state while the creator page is in use: one user
\* signed in through the callback, the profile check answered 200
SignedIn ==
    /\ now = 0
    /\ callbacks = <<>>
    /\ issued = {[token |-> CreateAccessToken(1), googleId |-> GOOGLE_IDS_ALL[1],
                   live |-> TRUE]}
    /\ users = <<NewUser(GOOGLE_IDS_ALL[1], 1)>>
    /\ lastId = 2
    /\ cookie = CreateAccessToken(1)
    /\ view = "creator"
    /\ logoutStatus = 0
    /\ lastProfile = [cookie |-> CreateAccessToken(1),
                      resp |-> Response(200, "", NewUser(GOOGLE_IDS_ALL[1], 1))]

\* the backend just started, the browser opens the client's page
InitSession ==
    /\ nameValue = <<>>
    /\ descValue = <<>>
    /\ animalDom = {}
    /\ abilityDom = {}
    /\ selectedAnimals = <<>>
    /\ selectedAbilities = <<>>
    /\ generatedPokemons = <<>>
    /\ isGenerating = FALSE
    /\ docBtn = FreshButton
    /\ galleryDom = <<>>
    /\ toast = "none"
    /\ calls = <<>>
    /\ posts = <<>>
    /\ users = <<>>
    /\ lastId = 1
    /\ cookie = NoCookie
    /\ view = "loading"
    /\ logoutStatus = 0
    /\ lastProfile = NoExchange
    /\ now = 0
    /\ issued = {}
    /\ callbacks = <<>>

NextSession ==
    \/ \E g \in GoogleIds : CallbackSuccess(g)
    \/ CallbackFailure
    \/ CallbackError
    \/ BackToClient
    \/ \E fetchOk \in BOOLEAN : CheckAuth(fetchOk)
    \/ \E token \in CookieValues : ProfileRequest(token)
    \/ Restart
    \/ Tick
    \/ \E fetchOk \in BOOLEAN : HandleLogout(fetchOk)

SpecSession == InitSession /\ [][NextSession]_vars

-----------------------------------------------------------------------------
(* Callbacks of several browsers handled by one backend process.  Each     *)
(* GET /api/callback waits for the provider twice (code exchange, profile) *)
(* before the strategy's verify callback runs; the verify callback itself  *)
(* has no await, so it runs to its end in one turn of the event loop.      *)

\* a callback that arrived for the identity googleId; seen is what the store
\* held for the identity at that moment
NewCallback(googleId) ==
    [googleId |-> googleId, stage |-> "exchange",
     seen |-> FindUserByGoogleId(users, googleId), user |-> NoUser,
     token |-> NoCookie]

\* a lookup made when the request arrived
LookupAtVerify_OnArrival(c, store) == c.seen

\* let user = findUserByGoogleId(profile.id), in the verify callback
LookupAtVerify(c, store) == FindUserByGoogleId(store, c.googleId)

\* GET /api/callback arrives with a code for the identity googleId
CallbackArrive(googleId) ==
    /\ Len(callbacks) < MaxCallbacks
    /\ callbacks' = Append(callbacks, NewCallback(googleId))
    /\ UNCHANGED <<clientVars, posts, view, cookie, logoutStatus, users, lastId,
                   lastProfile, now, issued>>

\* the provider answered: the verify callback runs, find else add, done()
CallbackVerify(k) ==
    LET c == callbacks[k]
        found == LookupAtVerify(c, users)
        user == IF found # <<>> THEN found[1] ELSE NewUser(c.googleId, lastId)
    IN  /\ c.stage = "exchange"
        /\ found = <<>> => Len(users) < MaxUsers
        /\ users' = IF found # <<>> THEN users ELSE Append(users, user)
        /\ lastId' = IF found # <<>> THEN lastId ELSE lastId + 1
        /\ callbacks' = ReplaceAt(callbacks, k, [c EXCEPT !.stage = "verified", !.user = user])
        /\ UNCHANGED <<clientVars, posts, view, cookie, logoutStatus, lastProfile,
                       now, issued>>

\* the route's handler: token for req.user, cookie, redirect
CallbackRespond(k) ==
    LET c == callbacks[k] IN
    /\ c.stage = "verified"
    /\ callbacks' = ReplaceAt(callbacks, k,
                       [c EXCEPT !.stage = "done", !.token = CreateAccessToken(c.user.id)])
    /\ issued' = issued \cup {[token |-> CreateAccessToken(c.user.id),
                                googleId |-> c.googleId, live |-> TRUE]}
    /\ Cardinality(issued') <= MaxIssued
    /\ UNCHANGED <<clientVars, posts, view, cookie, logoutStatus, users, lastId,
                   lastProfile, now>>

\* the other browser has its cookie and its redirect
CallbackDone(k) ==
    /\ callbacks[k].stage = "done"
    /\ callbacks' = RemoveAt(callbacks, k)
    /\ UNCHANGED <<clientVars, posts, view, cookie, logoutStatus, users, lastId,
                   lastProfile, now, issued>>

NextConcurrent ==
    \/ \E g \in GoogleIds : CallbackArrive(g)
    \/ \E k \in 1..Len(callbacks) : CallbackVerify(k)
    \/ \E k \in 1..Len(callbacks) : CallbackRespond(k)
    \/ \E k \in 1..Len(callbacks) : CallbackDone(k)
    \/ \E token \in CookieValues : ProfileRequest(token)

SpecConcurrent == InitSession /\ [][NextConcurrent]_vars

-----------------------------------------------------------------------------
(* The creator page in use.                                                *)

NameChars == {" ", "B"}
DescChars == {"d"}

Names == Texts(NameChars, MaxNameLen)
Descriptions == Texts(DescChars, MaxDescLen)

\* the state the constructor leaves: render() on an instance with empty fields
Init ==
    /\ nameValue = <<>>
    /\ descValue = <<>>
    /\ animalDom = {}
    /\ abilityDom = {}
    /\ selectedAnimals = <<>>
    /\ selectedAbilities = <<>>
    /\ generatedPokemons = <<>>
    /\ isGenerating = FALSE
    /\ docBtn = FreshButton
    /\ galleryDom = <<>>
    /\ toast = "none"
    /\ calls = <<>>
    /\ posts = <<>>
    /\ SignedIn

Next ==
    \/ \E v \in Names : TypeName(v)
    \/ \E v \in Descriptions : TypeDescription(v)
    \/ \E S \in SUBSET (1..Min(WorkflowAnimalOptions, Len(ANIMAL_TYPES))) : ChangeAnimals(S)
    \/ \E S \in SUBSET (1..Min(WorkflowAbilityOptions, Len(ABILITIES))) : ChangeAbilities(S)
    \/ SwitchLanguage
    \/ ClickGenerate
    \/ \E i \in 1..Len(calls) : ProxyReceive(i)
    \/ \E i \in 1..Len(calls), o \in UpstreamOutcomes : UpstreamResolve(i, o)
    \/ \E i \in 1..Len(calls) : FetchResolve(i)
    \/ \E i \in 1..Len(calls) : FetchReject(i)
    \/ \E i \in 1..Len(calls) : JsonResolve(i)
    \/ \E i \in 1..Len(calls) : JsonReject(i)

Spec == Init /\ [][Next]_vars

\* Every request is handled and every promise settles: the proxy runs its
\* handler on a request it received, the image service's call comes back
\* (with an answer or a failure), fetch() settles once the response is
\* there, and response.json() settles.
Settling ==
    /\ WF_vars(\E i \in 1..Len(calls) : ProxyReceive(i))
    /\ WF_vars(\E i \in 1..Len(calls), o \in UpstreamOutcomes : UpstreamResolve(i, o))
    /\ WF_vars(\E i \in 1..Len(calls) : FetchResolve(i))
    /\ WF_vars(\E i \in 1..Len(calls) : JsonResolve(i) \/ JsonReject(i))

\* the creator page with the description left empty
NextLive ==
    \/ \E v \in Names : TypeName(v)
    \/ \E S \in SUBSET (1..Min(WorkflowAnimalOptions, Len(ANIMAL_TYPES))) : ChangeAnimals(S)
    \/ \E S \in SUBSET (1..Min(WorkflowAbilityOptions, Len(ABILITIES))) : ChangeAbilities(S)
    \/ SwitchLanguage
    \/ ClickGenerate
    \/ \E i \in 1..Len(calls) : ProxyReceive(i)
    \/ \E i \in 1..Len(calls), o \in UpstreamOutcomes : UpstreamResolve(i, o)
    \/ \E i \in 1..Len(calls) : FetchResolve(i)
    \/ \E i \in 1..Len(calls) : FetchReject(i)
    \/ \E i \in 1..Len(calls) : JsonResolve(i)
    \/ \E i \in 1..Len(calls) : JsonReject(i)

SpecLive == Init /\ [][NextLive]_vars /\ Settling

-----------------------------------------------------------------------------
(* The pickers alone, with every option in reach.                          *)

NextPicker ==
    \/ \E S \in SUBSET (1..Len(ANIMAL_TYPES)) : ChangeAnimals(S)
    \/ \E S \in SUBSET (1..Len(ABILITIES)) : ChangeAbilities(S)
    \/ SwitchLanguage

SpecPicker == Init /\ [][NextPicker]_vars

-----------------------------------------------------------------------------
(* The proxy and its clients: the creator page with one animal type and    *)
(* one ability picked, and other HTTP clients posting bodies of their own. *)

\* a field of a posted body: absent, or a text
PostedTexts(texts) == {Undefined} \cup {Str(t) : t \in texts}

\* a field of a posted body: absent, or a list of the first n options
PostedLists(options) ==
    {Undefined} \cup {Arr(SubSeq(options, 1, n)) : n \in 0..Min(MaxPostedList, Len(options))}

PostedBodies ==
    [name : PostedTexts(Names),
     description : {Undefined} \cup {Str(t) : t \in Descriptions \ {<<>>}},
     animalTypes : PostedLists(ANIMAL_TYPES),
     abilities : PostedLists(ABILITIES)]

\* the cookie values other clients send along: none, or one that is no JWT
PostedCookies == {NoCookie, GarbageCookie}

\* another client sends POST /api/generate-pokemon
DirectPost(body) ==
    /\ Len(posts) < MaxPosts
    /\ \E c \in PostedCookies :
          posts' = Append(posts, [NewRequest(body) EXCEPT !.cookie = c])
    /\ UNCHANGED <<clientVars, sessionVars>>

\* the proxy's handler runs on the request of another client
DirectReceive(i) ==
    /\ posts[i].stage = "sent"
    /\ posts' = ReplaceAt(posts, i, HandleGenerate(posts[i]))
    /\ UNCHANGED <<clientVars, sessionVars>>

\* the image service's answer reaches the handler of another client's request
DirectUpstream(i, o) ==
    /\ posts[i].stage = "upstream"
    /\ posts' = ReplaceAt(posts, i, HandleUpstream(posts[i], o))
    /\ UNCHANGED <<clientVars, sessionVars>>

\* the other client takes the response
DirectDone(i) ==
    /\ posts[i].stage = "answered"
    /\ posts' = RemoveAt(posts, i)
    /\ UNCHANGED <<clientVars, sessionVars>>

\* the creator page after the user picked the first animal type and the
\* first ability (two 'change' events on the page Init describes)
InitFilled ==
    /\ nameValue = <<>>
    /\ descValue = <<>>
    /\ animalDom = {1}
    /\ abilityDom = {1}
    /\ selectedAnimals = <<ANIMAL_TYPES[1]>>
    /\ selectedAbilities = <<ABILITIES[1]>>
    /\ generatedPokemons = <<>>
    /\ isGenerating = FALSE
    /\ docBtn = FreshButton
    /\ galleryDom = <<>>
    /\ toast = "none"
    /\ calls = <<>>
    /\ posts = <<>>
    /\ SignedIn

NextProxy ==
    \/ \E v \in Names : TypeName(v)
    \/ \E v \in Descriptions : TypeDescription(v)
    \/ ClickGenerate
    \/ \E i \in 1..Len(calls) : ProxyReceive(i)
    \/ \E i \in 1..Len(calls), o \in UpstreamOutcomes : UpstreamResolve(i, o)
    \/ \E i \in 1..Len(calls) : FetchResolve(i)
    \/ \E i \in 1..Len(calls) : FetchReject(i)
    \/ \E i \in 1..Len(calls) : JsonResolve(i)
    \/ \E i \in 1..Len(calls) : JsonReject(i)
    \/ \E body \in PostedBodies : DirectPost(body)
    \/ \E i \in 1..Len(posts) : DirectReceive(i)
    \/ \E i \in 1..Len(posts), o \in UpstreamOutcomes : DirectUpstream(i, o)
    \/ \E i \in 1..Len(posts) : DirectDone(i)

SpecProxy == InitFilled /\ [][NextProxy]_vars

-----------------------------------------------------------------------------
(* The creator page against whatever answers at API_URL: the client takes  *)
(* the address of the endpoint from its build environment and reads the    *)
(* response without knowing who wrote it.                                  *)

\* a 200 body as the proxy writes it, and the same without imageUrl
EndpointBodies ==
    {SuccessBody(ImageUrl(IMAGES), <<"prompt">>),
     [SuccessBody(ImageUrl(IMAGES), <<"prompt">>) EXCEPT !.imageUrl = Undefined],
     ErrorBody("Failed to generate pokemon image")}

\* the responses the endpoint may give
EndpointAnswers == [status : {200, 500}, body : EndpointBodies]

\* the endpoint answers the request of activation i
EndpointAnswer(i, a) ==
    /\ calls[i].stage = "fetch"
    /\ calls[i].req.stage = "sent"
    /\ calls' = ReplaceAt(calls, i,
                   [calls[i] EXCEPT !.req.stage = "answered",
                                    !.req.status = a.status,
                                    !.req.resp = a.body])
    /\ UNCHANGED <<nameValue, descValue, animalDom, abilityDom, selectedAnimals,
                   selectedAbilities, generatedPokemons, isGenerating, docBtn,
                   galleryDom, toast, posts, sessionVars>>

NextClient ==
    \/ \E v \in Names : TypeName(v)
    \/ \E v \in Descriptions : TypeDescription(v)
    \/ \E S \in SUBSET (1..Min(WorkflowAnimalOptions, Len(ANIMAL_TYPES))) : ChangeAnimals(S)
    \/ \E S \in SUBSET (1..Min(WorkflowAbilityOptions, Len(ABILITIES))) : ChangeAbilities(S)
    \/ SwitchLanguage
    \/ ClickGenerate
    \/ \E i \in 1..Len(calls), a \in EndpointAnswers : EndpointAnswer(i, a)
    \/ \E i \in 1..Len(calls) : FetchResolve(i)
    \/ \E i \in 1..Len(calls) : FetchReject(i)
    \/ \E i \in 1..Len(calls) : JsonResolve(i)
    \/ \E i \in 1..Len(calls) : JsonReject(i)

SpecClient == Init /\ [][NextClient]_vars

-----------------------------------------------------------------------------
(* Properties of the generation workflow (checked under Spec).             *)

\* the parts of the state a click on the generate button can touch
FormAndGallery ==
    <<generatedPokemons, galleryDom, nameValue, descValue, animalDom, abilityDom,
      selectedAnimals, selectedAbilities>>

\* C1: single-flight submission.  At most one activation of generatePokemon,
\* hence at most one /generate-pokemon request of this client, is outstanding
\* at any time, and a click that arrives while a generation is in flight
\* changes neither the gallery, nor the form, nor the set of requests.
C1_SingleFlight ==
    /\ [](Len(calls) <= 1)
    /\ [][isGenerating /\ ClickGenerate => UNCHANGED <<FormAndGallery, calls>>]_vars

\* a generation is in flight and a click on the button now in the document
\* would pass every validation: only the entry guard stops it
C1_Witness ==
    /\ isGenerating
    /\ Len(calls) = 1
    /\ calls[1].stage = "fetch"
    /\ ~docBtn.disabled
    /\ Trim(nameValue) # <<>>
    /\ Len(selectedAnimals) > 0
    /\ Len(selectedAbilities) > 0

\* C8: a successful generation prepends exactly one entry, which carries the
\* name, animal types and abilities that were submitted and the image
\* reference that was returned; the entries held before follow it unchanged
\* and in their order.  Nothing else changes the list.
C8_SuccessPrepends ==
    /\ [][\A i \in 1..Len(calls) : JsonResolve(i) =>
            /\ Len(generatedPokemons') = Len(generatedPokemons) + 1
            /\ generatedPokemons'[1].name = calls[i].req.body.name.v
            /\ generatedPokemons'[1].animalTypes = calls[i].req.body.animalTypes.v
            /\ generatedPokemons'[1].abilities = calls[i].req.body.abilities.v
            /\ generatedPokemons'[1].imageUrl = calls[i].req.resp.imageUrl
            /\ Tail(generatedPokemons') = generatedPokemons]_vars
    /\ [][generatedPokemons' # generatedPokemons =>
            \E i \in 1..Len(calls) : JsonResolve(i)]_vars

\* a second success was prepended to a gallery that held a different entry,
\* and the form shows other values than the ones submitted
C8_Witness ==
    /\ Len(generatedPokemons) = 2
    /\ generatedPokemons[1].animalTypes # generatedPokemons[2].animalTypes
    /\ toast = "messages.created"
    /\ ~isGenerating

\* the ways the generation of activation i fails: the fetch rejects, the
\* response has an error status, the body is no JSON
FailureOf(i) ==
    \/ FetchReject(i)
    \/ JsonReject(i)
    \/ (FetchResolve(i) /\ calls[i].req.status >= 400)

\* C9: a failed generation leaves the gallery unchanged, shows the failure
\* notification and returns to idle.
C9_FailureKeepsGallery ==
    [][\A i \in 1..Len(calls) : FailureOf(i) =>
            /\ generatedPokemons' = generatedPokemons
            /\ galleryDom' = galleryDom
            /\ toast' = "messages.generationFailed"
            /\ ~isGenerating'
            /\ ~docBtn'.disabled
            /\ calls' = <<>>]_vars

\* a generation failed after an earlier one had filled the gallery
C9_Witness ==
    /\ toast = "messages.generationFailed"
    /\ Len(generatedPokemons) = 1
    /\ ~isGenerating
    /\ calls = <<>>
    /\ docBtn = IdleButton

-----------------------------------------------------------------------------
(* Properties of the pickers (checked under SpecPicker).                   *)

NoDuplicates(s) == \A i, j \in 1..Len(s) : i # j => s[i] # s[j]

\* C4: the selection tracked for a picker never has more elements than the
\* picker's cap, and a change that selects more options than the cap is
\* rejected: the tracked selection stays at the cap, one option is
\* deselected in the control and the warning is shown.
C4_SelectionCap ==
    /\ [](/\ Len(selectedAnimals) <= MaxAnimalSelections
          /\ Len(selectedAbilities) <= MaxAbilitySelections
          /\ NoDuplicates(selectedAnimals)
          /\ NoDuplicates(selectedAbilities))
    /\ [][\A S \in SUBSET (1..Len(ANIMAL_TYPES)) :
            ChangeAnimals(S) /\ Cardinality(S) > MaxAnimalSelections =>
                /\ Len(selectedAnimals') = MaxAnimalSelections
                /\ Cardinality(animalDom') < Cardinality(S)
                /\ toast' = "validation.maxAnimals"]_vars
    /\ [][\A S \in SUBSET (1..Len(ABILITIES)) :
            ChangeAbilities(S) /\ Cardinality(S) > MaxAbilitySelections =>
                /\ Len(selectedAbilities') = MaxAbilitySelections
                /\ Cardinality(abilityDom') < Cardinality(S)
                /\ toast' = "validation.maxAbilities"]_vars

\* both pickers are at their cap and the last change on the ability picker
\* was an attempt beyond the cap
C4_Witness ==
    /\ Len(selectedAnimals) = MaxAnimalSelections
    /\ Len(selectedAbilities) = MaxAbilitySelections
    /\ toast = "validation.maxAbilities"

-----------------------------------------------------------------------------
(* Properties of the proxy and its clients (checked under SpecProxy).      *)

\* every request to the proxy that is under way, whoever sent it
AllRequests == Range(posts) \cup {calls[i].req : i \in 1..Len(calls)}

\* the proxy made no outbound call for r and, once it handled r, answered 400
Rejected400(r) ==
    /\ r.sdCalls = 0
    /\ r.sd = <<>>
    /\ r.stage # "sent" => (r.stage = "answered" /\ r.status = 400)

\* a click on the enabled button, no generation in flight, with a name that
\* is empty after trimming: the name-required message, and no request
EmptyNameClick ==
    [][(~isGenerating /\ Trim(nameValue) = <<>> /\ ClickGenerate) =>
            /\ toast' = "validation.nameRequired"
            /\ calls' = calls
            /\ ~isGenerating']_vars

\* a name that is absent, empty or whitespace-only
BlankName(body) == body.name.t = "undef" \/ Trim(body.name.v) = <<>>

\* C2 as stated: with a name that is empty or whitespace-only the client
\* shows the name-required message and sends no request, and the proxy
\* answers 400 before any outbound call.
C2_Original ==
    /\ EmptyNameClick
    /\ [](\A r \in AllRequests : BlankName(r.body) => Rejected400(r))

\* a name that is absent or the empty string
NoName(body) == body.name.t = "undef" \/ body.name.v = <<>>

\* C2 as amended: with a name that is empty or whitespace-only the client
\* shows the name-required message and sends no request; the proxy answers
\* 400 before any outbound call when the name is absent or the empty string.
C2_EmptyName ==
    /\ EmptyNameClick
    /\ [](\A i \in 1..Len(calls) : ~BlankName(calls[i].req.body))
    /\ [](\A r \in AllRequests : NoName(r.body) => Rejected400(r))

\* the client refused a whitespace-only name, and the proxy answered 400 to
\* a request of another client whose name is the empty string and whose
\* other fields are in order
C2_Witness ==
    /\ nameValue = <<" ">>
    /\ toast = "validation.nameRequired"
    /\ calls = <<>>
    /\ \E r \in Range(posts) :
          /\ r.body.name = Str(<<>>)
          /\ ~Falsy(r.body.animalTypes) /\ Len(r.body.animalTypes.v) > 0
          /\ ~Falsy(r.body.abilities) /\ Len(r.body.abilities.v) > 0
          /\ r.stage = "answered"
          /\ r.status = 400

\* a field that is absent or empty: no value, the empty string, the empty array
AbsentOrEmpty(x) == x.t = "undef" \/ x.v = <<>>

\* C3: a request in which name, animalTypes or abilities is absent or empty
\* (an empty array included) gets a 400 response and causes no outbound call.
C3_MissingOrEmptyRejected ==
    \A r \in AllRequests :
        (\/ AbsentOrEmpty(r.body.name)
         \/ AbsentOrEmpty(r.body.animalTypes)
         \/ AbsentOrEmpty(r.body.abilities)) => Rejected400(r)

\* non-empty name, 1..2 animal types, 1..3 abilities
ValidBody(body) ==
    /\ body.name.t = "str" /\ Len(body.name.v) > 0
    /\ body.animalTypes.t = "arr"
    /\ Len(body.animalTypes.v) \in 1..MaxAnimalSelections
    /\ body.abilities.t = "arr"
    /\ Len(body.abilities.v) \in 1..MaxAbilitySelections

\* the image service answered with a success status and at least one image
GoodAnswer(o) ==
    /\ o.kind = "json"
    /\ o.ok
    /\ o.images.t = "arr"
    /\ Len(o.images.v) >= 1

\* C7: a valid request is answered 200, with success, the image reference
\* built from the first returned image and the prompt that was sent, if and
\* only if the image service answered with a success status and at least one
\* image; otherwise it is answered 500.
C7_SuccessIffImage ==
    \A r \in AllRequests :
        (ValidBody(r.body) /\ r.stage = "answered") =>
            /\ Len(r.sdAnswer) = 1
            /\ r.sdCalls = 1
            /\ IF GoodAnswer(r.sdAnswer[1])
               THEN /\ r.status = 200
                    /\ r.resp.success
                    /\ r.resp.imageUrl =
                           Str(<<"data:image/png;base64,", r.sdAnswer[1].images.v[1]>>)
                    /\ r.resp.prompt = Str(r.sd[1].prompt)
               ELSE /\ r.status = 500
                    /\ r.resp.imageUrl = Undefined

\* another client's valid request was answered 200 from an answer of two
\* images while the creator page's request was answered 500
C7_Witness ==
    /\ \E r \in Range(posts) :
          /\ ValidBody(r.body)
          /\ r.stage = "answered"
          /\ r.status = 200
          /\ Len(r.sdAnswer[1].images.v) = 2
    /\ \E i \in 1..Len(calls) :
          /\ calls[i].req.stage = "answered"
          /\ calls[i].req.status = 500

-----------------------------------------------------------------------------
(* Properties of the session (checked under SpecSession).                  *)

\* the request carries no token: no cookie, or a cookie with an empty value
NoToken(token) == token.t = "undef" \/ token.t = "empty"

\* the token is a JWT signed with the backend's secret over its own payload
WellSigned(token) ==
    /\ token.t = "jwt"
    /\ token.sig.key = JWT_SECRET
    /\ token.sig.of = token.payload

\* the ids of the records in the store
KnownIds == {users[i].id : i \in 1..Len(users)}

\* the classification C5 states, for the cookie value token and the response r
Classified(token, r) ==
    /\ NoToken(token) =>
           r.status = 401 /\ r.error = "Not authenticated"
    /\ (~NoToken(token) /\ ~WellSigned(token)) =>
           r.status = 401 /\ r.error = "Invalid token"
    /\ (WellSigned(token) /\ token.payload.id \notin KnownIds) =>
           r.status = 401 /\ r.error = "User not found"
    /\ (WellSigned(token) /\ token.payload.id \in KnownIds) =>
           /\ r.status = 200
           /\ r.user.id = token.payload.id
           /\ r.user \in Range(users)
    /\ r.status \in {200, 401}

\* C5: GET /api/user-profile answers 401 'Not authenticated' without a
\* cookie, 401 'Invalid token' for a token that fails verification, 401 'User
\* not found' for a well-signed token whose id has no record, and 200 with
\* the user's record only for a well-signed token of an existing id.
C5_GuardClassification ==
    /\ [][\A token \in CookieValues :
            ProfileRequest(token) => Classified(token, lastProfile'.resp)]_vars
    /\ [][(CheckAuth(TRUE) /\ lastProfile' # lastProfile) =>
            /\ Classified(cookie, lastProfile'.resp)
            /\ lastProfile'.cookie = cookie]_vars

\* the last exchange: a token signed with the backend's secret for an id the
\* store, which holds records, does not know, answered 'User not found'
C5_Witness ==
    /\ users # <<>>
    /\ WellSigned(lastProfile.cookie)
    /\ lastProfile.cookie.payload.id \notin KnownIds
    /\ lastProfile.resp.status = 401
    /\ lastProfile.resp.error = "User not found"

\* C6: the store never holds two records with the same external id, and a
\* callback for an external id that has a record leaves the store as it is
\* and issues the token for that record's local id.
C6_OneRecordPerGoogleId ==
    /\ [](\A i, j \in 1..Len(users) :
             users[i].googleId = users[j].googleId => i = j)
    /\ [][\A g \in GoogleIds :
            (CallbackSuccess(g) /\ \E i \in 1..Len(users) : users[i].googleId = g) =>
                /\ users' = users
                /\ lastId' = lastId
                /\ \E i \in 1..Len(users) :
                      /\ users[i].googleId = g
                      /\ cookie' = CreateAccessToken(users[i].id)]_vars

\* two identities have a record and the cookie is the token of the first:
\* its holder came through the callback again after the second signed up
C6_Witness ==
    /\ Len(users) = 2
    /\ cookie = CreateAccessToken(users[1].id)
    /\ view = "creator"

\* C10: once the client's logout action has completed, the logout was
\* answered 200, a profile check with the browser's cookie is rejected with
\* 401, and the browser no longer shows the creator.
C10_LogoutEndsSession ==
    logoutStatus # 0 =>
        /\ logoutStatus = 200
        /\ UserProfile(cookie, users).status = 401
        /\ view # "creator"

\* hours a session token is said to be good for
TokenLifetimeHours == 24

\* createAccessToken returned the token at some time
Issued(token) == \E r \in issued : r.token = token

\* a step in which GET /api/user-profile is answered for the cookie value token
ProfileExchange(token) ==
    \/ ProfileRequest(token)
    \/ CheckAuth(TRUE) /\ cookie = token

\* C11: a token createAccessToken issued more than 24 hours ago is rejected
\* with 401 by GET /api/user-profile.
C11_TokensExpire ==
    [][\A token \in CookieValues :
          (/\ ProfileExchange(token)
           /\ Issued(token)
           /\ now - token.payload.iat > TokenLifetimeHours) =>
              lastProfile'.resp.status = 401]_vars

\* createAccessToken returned the token before the last restart and has not
\* returned it since
IssuedBeforeRestart(token) ==
    /\ \E r \in issued : r.token = token /\ ~r.live
    /\ \A r \in issued : r.token = token => ~r.live

\* C12: GET /api/user-profile never answers 200 for a token that was issued
\* before the backend's last restart.
C12_RestartEndsSessions ==
    [][\A token \in CookieValues :
          (ProfileExchange(token) /\ IssuedBeforeRestart(token)) =>
              lastProfile'.resp.status # 200]_vars

\* C13: the authorization cookie is written only by a successful callback,
\* as the token of the record that was found or created for the identity,
\* followed by the redirect to the client; a callback that ends in a denial
\* or an exchange error redirects to the failure destination, writes no
\* cookie and leaves the user store as it is.
C13_CallbackOutcome ==
    /\ [][cookie' # cookie =>
            \E g \in GoogleIds :
                /\ CallbackSuccess(g)
                /\ \E i \in 1..Len(users') :
                      /\ users'[i].googleId = g
                      /\ cookie' = Sign([id |-> users'[i].id, iat |-> now], JWT_SECRET)
                /\ view' = "loading"]_vars
    /\ [][(CallbackFailure \/ CallbackError) =>
            /\ view' = "failure"
            /\ cookie' = cookie
            /\ users' = users
            /\ lastId' = lastId]_vars

-----------------------------------------------------------------------------
(* Properties of the prompt (checked under SpecProxy).                     *)

\* the text part occurs in the text
Contains(text, part) ==
    \E k \in 1..(Len(text) + 1) :
        /\ k + Len(part) - 1 <= Len(text)
        /\ SubSeq(text, k, k + Len(part) - 1) = part

\* the proxy made the outbound call for the request
CalledUpstream(r) == r.sd # <<>>

\* C14: the prompt of the outbound call includes the description whenever
\* the posted body carries a non-empty description.
C14_PromptHasDescription ==
    \A r \in AllRequests :
        (/\ CalledUpstream(r)
         /\ r.body.description.t = "str"
         /\ Len(r.body.description.v) > 0) =>
            Contains(r.sd[1].prompt, r.body.description.v)

\* the two bodies agree on name, animal types and abilities
SameInputs(b, c) ==
    /\ b.name = c.name
    /\ b.animalTypes = c.animalTypes
    /\ b.abilities = c.abilities

\* the text of a list joined with a separator between neighbours
Separated(list, sep) ==
    [k \in 1..(2 * Len(list) - 1) |-> IF k % 2 = 1 THEN list[(k + 1) \div 2] ELSE sep]

\* C15: the prompt of a valid request contains the name, the animal types
\* in request order with ' and ' between them and the abilities in request
\* order with ', ' between them; the negative prompt and the generation
\* parameters are fixed; and two requests that agree on name, animal types
\* and abilities lead to the same outbound call.
C15_PromptDeterministic ==
    /\ \A r \in AllRequests :
          (ValidBody(r.body) /\ CalledUpstream(r)) =>
              /\ Contains(r.sd[1].prompt, r.body.name.v)
              /\ Contains(r.sd[1].prompt, Separated(r.body.animalTypes.v, " and "))
              /\ Contains(r.sd[1].prompt, Separated(r.body.abilities.v, ", "))
              /\ r.sd[1].negative_prompt =
                     "ugly, blurry, low quality, distorted, disfigured, bad anatomy"
              /\ r.sd[1].steps = 20
              /\ r.sd[1].width = 512 /\ r.sd[1].height = 512
              /\ r.sd[1].cfg_scale = 7
              /\ r.sd[1].sampler_name = "Euler a"
    /\ \A r, q \in AllRequests :
          (/\ ValidBody(r.body) /\ CalledUpstream(r)
           /\ ValidBody(q.body) /\ CalledUpstream(q)
           /\ SameInputs(r.body, q.body)) => r.sd = q.sd

\* the creator page's request and another client's agree on name, animal
\* types and abilities and differ in the description, both reached the
\* image service
C15_Witness ==
    \E i \in 1..Len(calls), j \in 1..Len(posts) :
        /\ ValidBody(posts[j].body)
        /\ SameInputs(calls[i].req.body, posts[j].body)
        /\ calls[i].req.body.description # posts[j].body.description
        /\ Len(calls[i].req.body.description.v) > 0
        /\ CalledUpstream(calls[i].req)
        /\ CalledUpstream(posts[j])

-----------------------------------------------------------------------------
(* Further properties of the generation workflow (checked under Spec).     *)

\* the click sent no request and left the workflow idle with message shown
Refused(message) ==
    /\ toast' = message
    /\ calls' = calls
    /\ posts' = posts
    /\ isGenerating' = FALSE
    /\ docBtn' = docBtn
    /\ ~docBtn'.disabled
    /\ FormAndGallery' = FormAndGallery

\* C16: a click with no generation in flight and an empty name, or a name
\* but no animal type, or name and animal type but no ability, sends no
\* request, leaves the workflow idle and shows the message of the first
\* condition that fails, in the order name, animal type, ability.
C16_ValidationOrder ==
    [][(ClickGenerate /\ ~isGenerating) =>
          /\ Trim(nameValue) = <<>> => Refused("validation.nameRequired")
          /\ (Trim(nameValue) # <<>> /\ selectedAnimals = <<>>) =>
                 Refused("validation.selectAnimalType")
          /\ (Trim(nameValue) # <<>> /\ selectedAnimals # <<>>
                  /\ selectedAbilities = <<>>) =>
                 Refused("validation.selectAbility")]_vars

\* a click with a name and neither animal type nor ability was refused with
\* the animal-type message
C16_Witness ==
    /\ Trim(nameValue) # <<>>
    /\ selectedAnimals = <<>>
    /\ selectedAbilities = <<>>
    /\ toast = "validation.selectAnimalType"
    /\ calls = <<>>
    /\ ~isGenerating
    /\ ~docBtn.disabled

\* C17: every entry the gallery shows as a card carries an image reference,
\* also when the endpoint answers a success status with a body that has no
\* imageUrl.
C17_CardsHaveImages ==
    /\ \A i \in 1..Len(galleryDom) :
          galleryDom[i].kind = "card" => galleryDom[i].complete
    /\ galleryDom # <<>> =>
          \A i \in 1..Len(generatedPokemons) : ~Falsy(generatedPokemons[i].imageUrl)

-----------------------------------------------------------------------------
(* Further properties of the session (checked under SpecSession).          *)

-----------------------------------------------------------------------------
(* Liveness of the generation workflow (checked under SpecLive).           *)

\* the workflow is idle: flag down, the button in the document enabled, not
\* busy and showing its idle label
Idle ==
    /\ ~isGenerating
    /\ ~docBtn.disabled
    /\ docBtn.busy # "true"
    /\ docBtn.label = "form.generate"

\* C19: a submission that entered the submitting state is followed by a
\* state in which the workflow is idle again.
C19_ReturnsToIdle == isGenerating ~> Idle

\* the workflow is idle again after a failed generation that a language
\* switch overtook: the button in the document is the one render() built
C19_Witness ==
    /\ Idle
    /\ toast = "messages.generationFailed"
    /\ docBtn = FreshButton
    /\ calls = <<>>

-----------------------------------------------------------------------------
(* No retry (checked under SpecProxy).                                     *)

\* how far the handling of a request has come
StageRank(stage) ==
    CASE stage = "sent" -> 0
      [] stage = "upstream" -> 1
      [] stage = "answered" -> 2

\* C20: the proxy makes at most one outbound call per request, whatever the
\* image service does; an activation of generatePokemon sends one request,
\* which is never sent again, a failed activation ends without another
\* request, and only a submitting click adds a request of the client.
C20_NoRetry ==
    /\ [](\A r \in AllRequests :
             /\ r.sdCalls <= 1
             /\ r.stage = "sent" => r.sdCalls = 0
             /\ Len(r.sdAnswer) <= r.sdCalls)
    /\ [][\A i \in 1..Len(calls) : FailureOf(i) => calls' = RemoveAt(calls, i)]_vars
    /\ [][Len(calls') = Len(calls) =>
            \A i \in 1..Len(calls) :
                /\ calls'[i].req.body = calls[i].req.body
                /\ StageRank(calls'[i].req.stage) >= StageRank(calls[i].req.stage)
                /\ calls'[i].req.sdCalls >= calls[i].req.sdCalls]_vars
    /\ [][Len(calls') > Len(calls) =>
            /\ ClickGenerate
            /\ ~isGenerating
            /\ calls' = Append(calls, calls'[Len(calls')])
            /\ calls'[Len(calls')].req.stage = "sent"]_vars

\* the creator page's request was answered 500 after one outbound call the
\* network dropped, and another client's after one outbound call that came
\* back with an empty list of images
C20_Witness ==
    /\ \E i \in 1..Len(calls) :
          /\ calls[i].req.stage = "answered"
          /\ calls[i].req.status = 500
          /\ calls[i].req.sdCalls = 1
          /\ calls[i].req.sdAnswer[1].kind = "reject"
    /\ \E j \in 1..Len(posts) :
          /\ posts[j].stage = "answered"
          /\ posts[j].status = 500
          /\ posts[j].sdCalls = 1
          /\ posts[j].sdAnswer[1].images = Arr(<<>>)

-----------------------------------------------------------------------------
(* Further properties of the pickers (checked under SpecPicker).           *)

\* the user added one option to the selection D of a control, which takes
\* the selection beyond the cap max
AddsBeyondCap(D, S, max) ==
    /\ D \subseteq S
    /\ Cardinality(S \ D) = 1
    /\ Cardinality(S) > max

\* C21: when the user adds an option beyond a picker's cap, the control
\* deselects the option just added, keeps the earlier selections selected
\* and a warning is shown.
C21_LatestDeselected ==
    /\ [][\A S \in SUBSET (1..Len(ANIMAL_TYPES)) :
            (ChangeAnimals(S) /\ AddsBeyondCap(animalDom, S, MaxAnimalSelections)) =>
                /\ animalDom' = animalDom
                /\ toast' = "validation.maxAnimals"]_vars
    /\ [][\A S \in SUBSET (1..Len(ABILITIES)) :
            (ChangeAbilities(S) /\ AddsBeyondCap(abilityDom, S, MaxAbilitySelections)) =>
                /\ abilityDom' = abilityDom
                /\ toast' = "validation.maxAbilities"]_vars

-----------------------------------------------------------------------------
(* The user store (checked under SpecSession).                             *)

\* C22: the records of the store carry the ids 1..n in creation order, no
\* two share an id, the next id is n + 1, and within a process lifetime the
\* store only grows at its end, by a record with the next id.
C22_SequentialIds ==
    /\ [](/\ \A i \in 1..Len(users) : users[i].id = i
          /\ \A i, j \in 1..Len(users) : users[i].id = users[j].id => i = j
          /\ lastId = Len(users) + 1)
    /\ [][(users' # users /\ ~Restart) =>
            /\ Len(users') = Len(users) + 1
            /\ SubSeq(users', 1, Len(users)) = users
            /\ users'[Len(users')].id = lastId
            /\ lastId' = lastId + 1]_vars

\* two records were created in a process that was started after an earlier
\* one had issued tokens
C22_Witness ==
    /\ Len(users) = 2
    /\ \E r \in issued : ~r.live
    /\ \E r \in issued : r.live /\ r.token.payload.id = 2

-----------------------------------------------------------------------------
(* Access to the generation endpoint (checked under SpecProxy).            *)

\* C23: a POST /api/generate-pokemon request that carries no authorization
\* cookie, or a cookie that fails verification, causes no outbound call and
\* is rejected.
C23_GenerateProtected ==
    \A r \in AllRequests :
        (NoToken(r.cookie) \/ ~WellSigned(r.cookie)) =>
            /\ r.sdCalls = 0
            /\ r.sd = <<>>
            /\ r.stage # "sent" => (r.stage = "answered" /\ r.status \in {401, 403})

-----------------------------------------------------------------------------
(* The form after a generation (checked under Spec).                       *)

\* the form and the two selection sets
Form ==
    <<nameValue, descValue, animalDom, abilityDom, selectedAnimals, selectedAbilities>>

\* name and description empty, nothing selected in the controls, both sets
\* empty
EmptyForm == <<<<>>, <<>>, {}, {}, <<>>, <<>>>>

\* C24: a successful generation leaves the form empty (fields, controls and
\* both selection sets), so that a click right after it is refused with the
\* name-required message and sends nothing; a failed generation leaves the
\* form and both selection sets as they were.
C24_FormAfterGeneration ==
    /\ [][\A i \in 1..Len(calls) : JsonResolve(i) =>
            /\ Form' = EmptyForm
            /\ toast' = "messages.created"
            /\ ~isGenerating']_vars
    /\ [][(ClickGenerate /\ Form = EmptyForm /\ toast = "messages.created"
              /\ ~isGenerating) =>
            /\ toast' = "validation.nameRequired"
            /\ calls' = calls
            /\ posts' = posts
            /\ ~isGenerating']_vars
    /\ [][\A i \in 1..Len(calls) : FailureOf(i) => Form' = Form]_vars

\* the click right after a successful generation was refused: the gallery
\* holds the new entry, the form is empty, nothing is in flight
C24_Witness ==
    /\ Len(generatedPokemons) = 1
    /\ Form = EmptyForm
    /\ toast = "validation.nameRequired"
    /\ calls = <<>>
    /\ ~isGenerating

-----------------------------------------------------------------------------
(* Client start-up (checked under SpecSession).                            *)

\* C25: init shows the creator exactly when the profile check came back
\* with a success status; with any other status, and when the fetch
\* rejects, it shows the landing page; it shows one of the two.
C25_StartupView ==
    [][\A fetchOk \in BOOLEAN : CheckAuth(fetchOk) =>
          /\ view' \in {"creator", "landing"}
          /\ view' = "creator" <=>
                 (fetchOk /\ UserProfile(cookie, users).status \in 200..299)]_vars

\* the landing page is shown although the backend would accept the
\* browser's cookie: the profile check's fetch was rejected
C25_Witness ==
    /\ view = "landing"
    /\ UserProfile(cookie, users).status = 200
    /\ lastProfile.resp.status # 200

-----------------------------------------------------------------------------
(* The document and the instance's fields (checked under Spec).            *)

\* C26: whenever isGenerating is true, the generate button in the document
\* is disabled and marked busy.
C26_BusyButton ==
    isGenerating => (docBtn.disabled /\ docBtn.busy = "true")

\* the values of the options with the indexes D
ShownSelected(D, options) == {options[i] : i \in D}

\* C27: the tracked selection of each picker equals the set of options
\* selected in its control.
C27_TrackedMatchesControl ==
    /\ Range(selectedAnimals) = ShownSelected(animalDom, ANIMAL_TYPES)
    /\ Range(selectedAbilities) = ShownSelected(abilityDom, ABILITIES)

\* the cards among the children of #gallery-content
Cards == SelectSeq(galleryDom, LAMBDA c : c.kind = "card")

\* C28: the cards in the gallery correspond one-to-one, in the same order,
\* to the entries of generatedPokemons.
C28_GalleryMatchesList ==
    /\ Len(Cards) = Len(generatedPokemons)
    /\ \A i \in 1..Len(Cards) :
          i <= Len(generatedPokemons) =>
              /\ Cards[i].name = generatedPokemons[i].name
              /\ Cards[i].animalTypes = generatedPokemons[i].animalTypes
              /\ Cards[i].abilities = generatedPokemons[i].abilities

-----------------------------------------------------------------------------
(* Whom a token authenticates (checked under SpecSession).                 *)

\* the token was issued at callbacks of the external id g and of no other
IssuedOnlyFor(token, g) ==
    /\ \E r \in issued : r.token = token /\ r.googleId = g
    /\ \A r \in issued : r.token = token => r.googleId = g

\* C29: GET /api/user-profile with a token issued at the callback of the
\* user with external id g is rejected or returns a record whose googleId
\* is g.
C29_TokenBoundToUser ==
    [][\A token \in CookieValues, g \in GoogleIds :
          (ProfileExchange(token) /\ IssuedOnlyFor(token, g)) =>
              \/ lastProfile'.resp.status = 401
              \/ /\ lastProfile'.resp.status = 200
                 /\ lastProfile'.resp.user.googleId = g]_vars

-----------------------------------------------------------------------------
(* Concurrent callbacks (checked under SpecConcurrent).                    *)

\* C30: the verify callback looks the external id up in the store as it is
\* when the record is created, so under any interleaving of callbacks the
\* store holds one record per external id, no two records share a local
\* id, and every callback for one external id is served the same record.
C30_AtomicFindOrCreate ==
    /\ [](\A i, j \in 1..Len(users) :
             (users[i].googleId = users[j].googleId \/ users[i].id = users[j].id) => i = j)
    /\ [](\A k \in 1..Len(callbacks) :
             callbacks[k].stage # "exchange" =>
                 /\ callbacks[k].user \in Range(users)
                 /\ callbacks[k].user.googleId = callbacks[k].googleId)
    /\ [][\A k \in 1..Len(callbacks) : CallbackVerify(k) =>
            IF \E i \in 1..Len(users) : users[i].googleId = callbacks[k].googleId
            THEN users' = users /\ lastId' = lastId
            ELSE /\ users' = Append(users, [id |-> lastId, googleId |-> callbacks[k].googleId])
                 /\ lastId' = lastId + 1]_vars

\* two callbacks for the same identity arrived while the store did not know
\* it; both passed the verify callback and there is one record
C30_Witness ==
    \E i, j \in 1..Len(callbacks) :
        /\ i # j
        /\ callbacks[i].googleId = callbacks[j].googleId
        /\ callbacks[i].seen = <<>> /\ callbacks[j].seen = <<>>
        /\ callbacks[i].stage # "exchange" /\ callbacks[j].stage # "exchange"
        /\ callbacks[i].user = callbacks[j].user
        /\ Len(users) = 1

====
